---------------------------- MODULE Spec2Model ----------------------------
(***************************************************************************)
(* A model of complete_backend_pipeline.py: the bias-detection engine      *)
(* (content fetcher, narrative classifier, bias scorer, orchestrator) and  *)
(* the /metrics report.                                                    *)
(*                                                                         *)
(* Encoding.                                                               *)
(*  - A Python str is a sequence of atoms.  An atom is a run of characters *)
(*    ("www.", "policy", " ", "[") written as a TLA+ string; the atoms are *)
(*    cut so that every pattern the code searches for (a keyword, "www.",  *)
(*    ".com", a bracket, a code fence) begins and ends on atom borders, so *)
(*    substring search, replace, lower and title on characters are the     *)
(*    same operations on atoms.                                            *)
(*  - A float is a fixed-point integer: scores and milliseconds as they    *)
(*    are, a confidence c as 100*c (0.1 is 10), a reported value v rounded *)
(*    to two places as 100*v.                                              *)
(*  - A call that raises is a record [ok |-> FALSE, exc |-> <class>].      *)
(***************************************************************************)
EXTENDS Integers, Sequences, FiniteSets, TLC

\* ------------------------------------------------------------------ bounds
\* Concurrent process_article requests in Spec.
NumTasks == 2
\* Atoms of title/content text drawn in SpecCluster, beyond the first.
MaxWords == 2
\* Concurrent analyze_bias calls in SpecGate, beyond the gate's capacity.
ExtraCalls == 1
\* Samples older than the 100-sample window in SpecReport.
MaxOld == 2

\* ----------------------------------------------------------------- strings
None == "None"

Raise(e) == [ok |-> FALSE, exc |-> e]

Return(v) == [ok |-> TRUE, val |-> v]

\* str.lower() on one atom.
LowerAtom(a) ==
    CASE a = "Dangerous"  -> "dangerous"
      [] a = "STALKERS"   -> "stalkers"
      [] a = "How"        -> "how"
      [] a = "Guide"      -> "guide"
      [] a = "Policy"     -> "policy"
      [] a = "Actually"   -> "actually"
      [] a = "NYTimes"    -> "nytimes"
      [] a = "Content"    -> "content"
      [] a = "Extraction" -> "extraction"
      [] a = "Failed"     -> "failed"
      [] a = "Unable"     -> "unable"
      [] a = "Hello"      -> "hello"
      [] a = "News"       -> "news"
      [] OTHER            -> a

\* str.title() on one atom: the first letter of each word upper, the rest lower.
TitleAtom(a) ==
    CASE LowerAtom(a) = "nytimes"  -> "Nytimes"
      [] LowerAtom(a) = "example"  -> "Example"
      [] LowerAtom(a) = "policy"   -> "Policy"
      [] LowerAtom(a) = "guide"    -> "Guide"
      [] LowerAtom(a) = "news"     -> "News"
      [] LowerAtom(a) = ".org"     -> ".Org"
      [] OTHER                     -> LowerAtom(a)

Lower(s) == [i \in 1..Len(s) |-> LowerAtom(s[i])]

StrTitle(s) == [i \in 1..Len(s) |-> TitleAtom(s[i])]

\* s.replace(a, '') for a single atom a.
Remove(s, a) == SelectSeq(s, LAMBDA x : x # a)

\* pat in s: pat occurs in s as a contiguous run.
Contains(s, pat) ==
    \E i \in 1..(Len(s) - Len(pat) + 1) :
        \A j \in 1..Len(pat) : s[i + j - 1] = pat[j]

\* s.startswith(pat)
HasPrefix(s, pat) == Len(s) >= Len(pat) /\ SubSeq(s, 1, Len(pat)) = pat

\* s.replace(pat, ''): every occurrence of the run pat removed, left to right.
RECURSIVE Replace(_, _)
Replace(s, pat) ==
    IF Len(s) = 0 THEN <<>>
    ELSE IF HasPrefix(s, pat) THEN Replace(SubSeq(s, Len(pat) + 1, Len(s)), pat)
    ELSE <<s[1]>> \o Replace(Tail(s), pat)

Fence == "<fence>"

\* str.strip(): leading and trailing whitespace removed.
RECURSIVE LStrip(_)
LStrip(s) == IF Len(s) > 0 /\ s[1] = " " THEN LStrip(Tail(s)) ELSE s

RECURSIVE RStrip(_)
RStrip(s) ==
    IF Len(s) > 0 /\ s[Len(s)] = " " THEN RStrip(SubSeq(s, 1, Len(s) - 1)) ELSE s

Strip(s) == RStrip(LStrip(s))

\* sep.join(parts)
RECURSIVE Join(_, _)
Join(parts, sep) ==
    IF Len(parts) = 0 THEN <<>>
    ELSE IF Len(parts) = 1 THEN parts[1]
    ELSE parts[1] \o sep \o Join(Tail(parts), sep)

\* seq[:n]
Take(s, n) == SubSeq(s, 1, IF Len(s) < n THEN Len(s) ELSE n)

\* seq[-n:]
Last(s, n) == SubSeq(s, IF Len(s) < n THEN 1 ELSE Len(s) - n + 1, Len(s))

RECURSIVE Sum(_)
Sum(s) == IF Len(s) = 0 THEN 0 ELSE s[1] + Sum(Tail(s))

Max(a, b) == IF a >= b THEN a ELSE b

\* ---------------------------------------------------- narrative classifier
\* self.narrative_patterns, in the dict's insertion order.
narrative_patterns ==
    << [cluster  |-> "privacy_alarmist",
        keywords |-> << <<"dangerous">>, <<"threat">>, <<"stalkers">>,
                        <<"invasive">>, <<"concerning">> >>],
       [cluster  |-> "technical_explainer",
        keywords |-> << <<"how", " ", "to">>, <<"guide">>, <<"protect">>,
                        <<"control">>, <<"settings">> >>],
       [cluster  |-> "regulatory_response",
        keywords |-> << <<"lawmakers">>, <<"policy">>, <<"regulation">>,
                        <<"government">>, <<"official">> >>],
       [cluster  |-> "corporate_defense",
        keywords |-> << <<"clarification">>, <<"misunderstanding">>,
                        <<"actually">>, <<"reality">>, <<"explained">> >>] >>

\* sum(1 for keyword in keywords if keyword in text)
KeywordScore(keywords, text) ==
    Cardinality({i \in 1..Len(keywords) : Contains(text, keywords[i])})

\* The mutant of PyMaxStep: a later key with an equal score replaces the best.
PyMaxStepLastWins(best, k, score) ==
    IF score[k] >= score[best] THEN k ELSE best

\* One step of max(iterable, key=...): a later key replaces the best so far
\* only when its score is strictly greater.
PyMaxStep(best, k, score) ==
    IF score[k] > score[best] THEN k ELSE best

\* max(keys, key=score.get) over a non-empty sequence of keys.
RECURSIVE PyMaxFrom(_, _, _)
PyMaxFrom(best, rest, score) ==
    IF Len(rest) = 0 THEN best
    ELSE PyMaxFrom(PyMaxStep(best, rest[1], score), Tail(rest), score)

PyMax(keys, score) == PyMaxFrom(keys[1], Tail(keys), score)

\* cluster_scores and the return of detect_narrative_cluster: raw[i] is the
\* score of the i-th cluster; the dict keeps those above zero, in order.
ClusterOf(raw) ==
    LET kept == SelectSeq([i \in 1..Len(raw) |-> i], LAMBDA i : raw[i] > 0)
    IN  IF Len(kept) > 0 THEN narrative_patterns[PyMax(kept, raw)].cluster ELSE None

\* The score of every cluster on a lower-cased text.
ClusterScores(text) ==
    [i \in 1..Len(narrative_patterns) |->
        KeywordScore(narrative_patterns[i].keywords, text)]

\* BiasDetectionEngine.detect_narrative_cluster
detect_narrative_cluster(title, content) ==
    CHOOSE c \in { ClusterOf(raw) :
                     raw \in { ClusterScores(text) :
                                 text \in {Lower(title \o <<" ">> \o content)} } } : TRUE

\* ---------------------------------------------------------- content fetcher
\* urllib.parse.urlparse(url).netloc: the text between "scheme://" and the
\* next "/"; a netloc with one bracket and not the other raises ValueError
\* ("Invalid IPv6 URL").
RECURSIVE UpToSlash(_)
UpToSlash(s) ==
    IF Len(s) = 0 \/ s[1] = "/" THEN <<>> ELSE <<s[1]>> \o UpToSlash(Tail(s))

urlparse(url) ==
    LET netloc == IF Len(url) > 0 /\ url[1] \in {"http://", "https://"}
                  THEN UpToSlash(Tail(url)) ELSE <<>>
        open   == \E i \in 1..Len(netloc) : netloc[i] = "["
        close  == \E i \in 1..Len(netloc) : netloc[i] = "]"
    IN  IF open # close THEN Raise("ValueError") ELSE Return([netloc |-> netloc])

\* source_mapping: the lookup is by the exact lower-case domain.
source_mapping ==
    << [domain |-> <<"nytimes", ".com">>,        name |-> <<"New York Times">>],
       [domain |-> <<"washingtonpost", ".com">>, name |-> <<"Washington Post">>],
       [domain |-> <<"techcrunch", ".com">>,     name |-> <<"TechCrunch">>],
       [domain |-> <<"axios", ".com">>,          name |-> <<"Axios">>],
       [domain |-> <<"nypost", ".com">>,         name |-> <<"New York Post">>],
       [domain |-> <<"cnn", ".com">>,            name |-> <<"CNN">>],
       [domain |-> <<"foxnews", ".com">>,        name |-> <<"Fox News">>],
       [domain |-> <<"reuters", ".com">>,        name |-> <<"Reuters">>],
       [domain |-> <<"ap", ".org">>,             name |-> <<"Associated Press">>] >>

\* source_mapping.get(domain, default)
MappingGet(domain, default) ==
    IF \E i \in 1..Len(source_mapping) : source_mapping[i].domain = domain
    THEN source_mapping[CHOOSE i \in 1..Len(source_mapping) :
                            source_mapping[i].domain = domain].name
    ELSE default

\* The page, as the matches of the six regular expressions the code applies:
\* each field is the sequence of captured groups, in document order.
\* The title loop: the first pattern of title_patterns that matches, stripped.
ExtractTitle(html) ==
    IF Len(html.title_tag) > 0 THEN Strip(html.title_tag[1])
    ELSE IF Len(html.og_title) > 0 THEN Strip(html.og_title[1])
    ELSE IF Len(html.twitter_title) > 0 THEN Strip(html.twitter_title[1])
    ELSE <<"Unknown", " ", "Title">>

\* The content loop: up to three matches of each of content_patterns.
ContentParts(html) ==
    Take(html.meta_description, 3) \o Take(html.og_description, 3)
        \o Take(html.paragraphs, 3)

\* content_parts[:200].split(): content_parts is a list, and a list has no
\* split(), so the call raises AttributeError whatever the list holds.
ListSplit(parts) == Raise("AttributeError")

\* The try block of extract_article_content.  fetch is what session.get and
\* response.text() produce: [kind |-> "error", exc |-> ...] or
\* [kind |-> "body", status |-> ..., html |-> ...].
ExtractTry(url, fetch) ==
    IF fetch.kind = "error" THEN Raise(fetch.exc)
    ELSE
    LET html       == fetch.html
        title      == ExtractTitle(html)
        parsed_url == urlparse(url)
    IN  IF ~parsed_url.ok THEN parsed_url
        ELSE
        LET domain  == Lower(parsed_url.val.netloc)
            source  == MappingGet(domain,
                           StrTitle(Remove(Remove(domain, "www."), ".com")))
            words   == ListSplit(Take(ContentParts(html), 200))
        IN  IF ~words.ok THEN words
            ELSE
            LET joined  == Join(words.val, <<" ">>)
                content == IF Len(joined) = 0
                           THEN <<"Article", " ", "from", " ">> \o source
                                    \o <<":", " ">> \o title
                           ELSE joined
            IN  Return([title |-> title, source |-> source, content |-> content])

ExtractionFailed == <<"Content", " ", "Extraction", " ", "Failed">>

UnableToExtract == <<"Unable", " ", "to", " ", "extract", " ", "content", " ", "from", " ">>

\* The except block of extract_article_content.
ExtractHandler(url) ==
    LET parsed_url == urlparse(url)
    IN  IF ~parsed_url.ok THEN parsed_url
        ELSE Return([title   |-> ExtractionFailed,
                     source  |-> StrTitle(Remove(Remove(parsed_url.val.netloc,
                                                        "www."), ".com")),
                     content |-> UnableToExtract \o url])

\* BiasDetectionEngine.extract_article_content
extract_article_content(url, fetch) ==
    LET r == ExtractTry(url, fetch)
    IN  IF r.ok THEN r ELSE ExtractHandler(url)

\* ------------------------------------------------------ inputs of the fetch
UrlNews == <<"https://", "www.", "NYTimes", ".com", "/", "Policy", "-", "Guide">>

UrlPlain == <<"https://", "example", ".org", "/", "news">>

\* A URL whose host opens a bracket it never closes.
UrlBad == <<"http://", "[", "::1", "/", "x">>

Urls == {UrlNews, UrlPlain, UrlBad}

Titles == { <<>>, << <<"Hello">> >>, << <<" ", "Dangerous", " ", "Guide", " ">> >> }

HtmlPages ==
    [title_tag        : Titles,
     og_title         : { <<>>, << <<"News">> >> },
     twitter_title    : { <<>>, << <<"Policy">> >> },
     meta_description : { <<>>, << <<"how", " ", "to">> >> },
     og_description   : { <<>> },
     paragraphs       : { <<>>, << <<"stalkers">>, <<"threat">>, <<"guide">>,
                                   <<"reality">> >> }]

\* What the GET can produce for url: a transport error or a timeout; or, for
\* a URL a client can connect to, a response (200 or not) with a body.
FetchOutcomes(url) ==
    { [kind |-> "error", exc |-> e] : e \in {"ClientConnectorError", "TimeoutError"} }
    \cup IF urlparse(url).ok
         THEN { [kind |-> "body", status |-> st, html |-> h] :
                    st \in {200, 404}, h \in HtmlPages }
         ELSE {}

\* -------------------------------------------------------------- bias scorer
Dims == <<"ideological_stance", "factual_grounding", "framing_choices",
          "emotional_tone", "source_transparency">>

DimSet == {Dims[i] : i \in 1..Len(Dims)}

\* A JSON value: a number n, a string, an object of phrase lists or of
\* reasons, null, or no value at all (the key is absent from the document).
JNum(n) == [t |-> "num", n |-> n]

JStr == [t |-> "str", n |-> 0]

JObj == [t |-> "object", n |-> 0]

JMissing == [t |-> "missing", n |-> 0]

\* float(v) for a JSON value v; result[k] of an absent key raises KeyError.
PyFloat(v) ==
    CASE v.t = "num"     -> Return(v.n)
      [] v.t = "missing" -> Raise("KeyError")
      [] v.t = "str"     -> Raise("ValueError")
      [] OTHER           -> Raise("TypeError")

\* result[k] for a key the code does not convert.
GetItem(v) == IF v.t = "missing" THEN Raise("KeyError") ELSE Return(v)

\* The if-startswith pair that removes a code fence from the reply.  Fence
\* is the atom of three backquotes; the fence of a JSON block is Fence, "json".
StripFences(text) ==
    LET t1 == IF HasPrefix(text, <<Fence, "json">>)
              THEN Strip(Replace(Replace(text, <<Fence, "json">>), <<Fence>>))
              ELSE text
    IN  IF HasPrefix(t1, <<Fence>>) THEN Strip(Replace(t1, <<Fence>>)) ELSE t1

\* json.loads(text): the text parses when it is the document alone and the
\* document is well-formed; doc is the value the document "{...}" denotes.
json_loads(text, doc) ==
    IF text = <<"{...}">> /\ doc.wellformed THEN Return(doc)
    ELSE Raise("JSONDecodeError")

\* The BiasScore of the fallback response.
FallbackScoreBody(e, processing_time) ==
    [ideological_stance  |-> 50,
     factual_grounding   |-> 50,
     framing_choices     |-> 50,
     emotional_tone      |-> 50,
     source_transparency |-> 50,
     confidence          |-> 10,
     highlighted_phrases |-> [t |-> "dict",
                              keys |-> {"error"},
                              d |-> << <<"Analysis failed">>, <<"Error: ", e>> >>],
     reasoning           |-> [t |-> "dict", keys |-> {"error"},
                              d |-> << <<"Analysis failed: ", e>> >>],
     processing_time_ms  |-> processing_time,
     narrative_cluster   |-> None]

\* No BiasScore: the value of a call that raised.
NoScore ==
    [FallbackScoreBody(None, 0) EXCEPT
        !.ideological_stance = 0, !.factual_grounding = 0, !.framing_choices = 0,
        !.emotional_tone = 0, !.source_transparency = 0, !.confidence = 0]

\* The first exception raised by the conversions of the BiasScore(...) call,
\* in argument order, or None.
FirstError(result) ==
    LET vals == << PyFloat(result.ideological_stance),
                   PyFloat(result.factual_grounding),
                   PyFloat(result.framing_choices),
                   PyFloat(result.emotional_tone),
                   PyFloat(result.source_transparency),
                   PyFloat(result.confidence),
                   GetItem(result.highlighted_phrases),
                   GetItem(result.reasoning) >>
        bad  == {i \in 1..Len(vals) : ~vals[i].ok}
    IN  IF bad = {} THEN None
        ELSE vals[CHOOSE i \in bad : \A j \in bad : i <= j].exc

\* A dict of the reply as the dataclass keeps it: its JSON type, its keys,
\* and its values.
AsDict(v) ==
    [t    |-> IF v.t = "object" THEN "dict" ELSE v.t,
     keys |-> IF v.t = "object" THEN DimSet ELSE {},
     d    |-> IF v.t = "object" THEN << <<"phrase">> >> ELSE <<>>]

\* The try block of analyze_bias from the reply of the remote model on.
\* reply.kind is "error" when the client call raises reply.exc, "null" when
\* the message has no content (None.strip() raises AttributeError), and
\* "text" when the message is reply.text, whose document denotes reply.doc.
ScoreTry(title, content, reply, processing_time) ==
    IF reply.kind = "error" THEN Raise(reply.exc)
    ELSE IF reply.kind = "null" THEN Raise("AttributeError")
    ELSE
    LET result_text == StripFences(Strip(reply.text))
        loaded      == json_loads(result_text, reply.doc)
    IN  IF ~loaded.ok THEN loaded
        ELSE
        LET result == loaded.val
        IN  IF ~result.object THEN Raise("TypeError")
            ELSE IF FirstError(result) # None THEN Raise(FirstError(result))
            ELSE Return(
                   [ideological_stance  |-> result.ideological_stance.n,
                    factual_grounding   |-> result.factual_grounding.n,
                    framing_choices     |-> result.framing_choices.n,
                    emotional_tone      |-> result.emotional_tone.n,
                    source_transparency |-> result.source_transparency.n,
                    confidence          |-> result.confidence.n,
                    highlighted_phrases |-> AsDict(result.highlighted_phrases),
                    reasoning           |-> AsDict(result.reasoning),
                    processing_time_ms  |-> processing_time,
                    narrative_cluster   |->
                        detect_narrative_cluster(title, content)])

\* The mutant of IsJSONDecodeError: no exception reaches the first clause.
NeverJSONDecodeError(e) == FALSE

\* except json.JSONDecodeError: the clause that re-raises as HTTPException.
IsJSONDecodeError(e) == e = "JSONDecodeError"

\* The mutant of FallbackScore: the fallback reports full confidence.
FallbackScoreConfident(e, processing_time) ==
    [FallbackScoreBody(e, processing_time) EXCEPT !.confidence = 100]

\* The except Exception block of analyze_bias: the fallback response.
FallbackScore(e, processing_time) == FallbackScoreBody(e, processing_time)

\* BiasDetectionEngine.analyze_bias from the reply on: what the call returns
\* or raises, and whether it appended to response_times and accuracy_scores.
ScoreReply(title, content, reply, processing_time) ==
    LET r == ScoreTry(title, content, reply, processing_time)
    IN  IF r.ok THEN [ok |-> TRUE, exc |-> None, val |-> r.val, parsed |-> TRUE]
        ELSE IF IsJSONDecodeError(r.exc)
        THEN [ok |-> FALSE, exc |-> "HTTPException",
              val |-> NoScore, parsed |-> FALSE]
        ELSE [ok |-> TRUE, exc |-> None,
              val |-> FallbackScore(r.exc, processing_time), parsed |-> FALSE]

\* ----------------------------------------------- replies of the remote model
\* The document the prompt asks for.
GoodDoc ==
    [wellformed |-> TRUE, object |-> TRUE,
     ideological_stance  |-> JNum(70),
     factual_grounding   |-> JNum(60),
     framing_choices     |-> JNum(30),
     emotional_tone      |-> JNum(40),
     source_transparency |-> JNum(80),
     confidence          |-> JNum(90),
     highlighted_phrases |-> JObj,
     reasoning           |-> JObj]

\* Numbers outside the ranges the prompt asks for.
WildDoc ==
    [GoodDoc EXCEPT !.ideological_stance = JNum(150), !.confidence = JNum(170)]

\* Text that is not JSON.
Garbage == [GoodDoc EXCEPT !.wellformed = FALSE]

\* Valid JSON that is not an object (a list, a number).
NotAnObject == [GoodDoc EXCEPT !.object = FALSE]

Replies ==
    { [kind |-> "error", exc |-> "APIConnectionError", text |-> <<>>, doc |-> GoodDoc],
      [kind |-> "error", exc |-> "APITimeoutError", text |-> <<>>, doc |-> GoodDoc],
      [kind |-> "null", exc |-> None, text |-> <<>>, doc |-> GoodDoc] }
    \cup { [kind |-> "text", exc |-> None, text |-> r[1], doc |-> r[2]] : r \in
      { << <<"{...}">>, GoodDoc >>,
        << <<" ", Fence, "json", " ", "{...}", " ", Fence, " ">>, WildDoc >>,
        << <<Fence, " ", "{...}", " ", Fence>>, GoodDoc >>,
        << <<"Here:", " ", Fence, "json", " ", "{...}", " ", Fence>>, GoodDoc >>,
        << <<"{...}">>, Garbage >>,
        << <<"{...}">>, NotAnObject >>,
        << <<"{...}">>, [GoodDoc EXCEPT !.confidence = JMissing] >>,
        << <<"{...}">>, [GoodDoc EXCEPT !.reasoning = JMissing] >>,
        << <<"{...}">>, [GoodDoc EXCEPT !.ideological_stance = JStr] >>,
        << <<"{...}">>, [GoodDoc EXCEPT !.highlighted_phrases = JStr] >> } }

\* ------------------------------------------------------------------- state
VARIABLES
    tasks,           \* the calls in progress: per call, its place and locals
    metrics,         \* self.metrics (SystemMetrics)
    active_users,    \* self.business_metrics.active_users
    rate_limiter,    \* the free slots of self.rate_limiter
    now,             \* the clock, in milliseconds: advanced by every network wait
    ex_in, ex_out,   \* one call of extract_article_content: arguments, result
    cl_in, cl_out,   \* one call of detect_narrative_cluster: arguments, result
    report           \* the last answer of GET /metrics

vars == <<tasks, metrics, active_users, rate_limiter, now,
          ex_in, ex_out, cl_in, cl_out, report>>

\* asyncio.Semaphore(10)
RateLimit == 10

\* last_analysis = None: no analysis yet.
NoTime == -1

\* SystemMetrics() as constructed
NewMetrics ==
    [articles_processed    |-> 0,
     total_processing_time |-> 0,
     error_count           |-> 0,
     last_analysis         |-> NoTime,
     uptime_start          |-> 0,
     response_times        |-> <<>>,
     accuracy_scores       |-> <<>>,
     user_sessions         |-> 0,
     api_calls_today       |-> 0]

NoContent == [title |-> <<>>, source |-> <<>>, content |-> <<>>]

NoReply == [kind |-> "none", exc |-> None, text |-> <<>>, doc |-> GoodDoc]

NoResponse ==
    [status |-> "none", url |-> <<>>, title |-> <<>>, source |-> <<>>,
     scores |-> <<>>, highlighted_phrases |-> AsDict(JMissing), confidence |-> 0,
     processing_time_ms |-> 0, narrative_cluster |-> None]

\* What a network wait can take, in milliseconds.
Durations == {1}

\* A call: pc is its place ("idle": not yet called; "fetch": in
\* process_article, awaiting the GET; "gate": in analyze_bias, at the
\* async with; "call": holding a slot, the remote call outstanding;
\* "done": returned or raised).  orch tells a call of process_article from a
\* direct call of analyze_bias.  p_time and a_time are time.time() - start_time
\* of process_article and of analyze_bias: the waits of the call so far.
NewTask(orch, pc, content) ==
    [pc |-> pc, orch |-> orch, url |-> <<>>, user_segment |-> None,
     p_time |-> 0, a_time |-> 0, extracted |-> content,
     reply |-> NoReply,
     scored |-> [ok |-> FALSE, exc |-> None, val |-> NoScore, parsed |-> FALSE],
     out |-> [ok |-> FALSE, exc |-> None, resp |-> NoResponse]]

Segments == {None, "journalist"}

\* ------------------------------------------------------------ orchestrator
\* The mutant of ExceptException: the clause catches ValueError alone.
ExceptValueErrorOnly(e) == e \in {"ValueError", "ValidationError"}

\* except Exception: every exception class but those that derive from
\* BaseException alone.
ExceptException(e) ==
    e \notin {"KeyboardInterrupt", "SystemExit", "GeneratorExit", "CancelledError"}

\* The AnalysisResponse of the except block.  (article_id and timestamp, which
\* no code reads back, are left out of both responses.)
ErrorResponse(url, e, p_time) ==
    [status |-> "error", url |-> url, title |-> <<"Processing Failed">>,
     source |-> <<"Unknown">>, scores |-> <<>>,
     highlighted_phrases |-> [t |-> "dict", keys |-> {"error"}, d |-> << <<e>> >>],
     confidence |-> 0, processing_time_ms |-> p_time,
     narrative_cluster |-> None]

\* AnalysisResponse(...) of the try block: pydantic validates the fields, and
\* highlighted_phrases must be a dict of lists of strings.
SuccessResponse(task, bias_score) ==
    IF bias_score.highlighted_phrases.t # "dict" THEN Raise("ValidationError")
    ELSE Return(
        [status |-> "success", url |-> task.url,
         title |-> task.extracted.title, source |-> task.extracted.source,
         scores |-> [i \in 1..Len(Dims) |->
                        CASE i = 1 -> bias_score.ideological_stance
                          [] i = 2 -> bias_score.factual_grounding
                          [] i = 3 -> bias_score.framing_choices
                          [] i = 4 -> bias_score.emotional_tone
                          [] OTHER -> bias_score.source_transparency],
         highlighted_phrases |-> bias_score.highlighted_phrases,
         confidence |-> bias_score.confidence,
         processing_time_ms |-> bias_score.processing_time_ms,
         narrative_cluster |-> bias_score.narrative_cluster])

\* The success-path bookkeeping of process_article (the four counters).
CountProcessedBody(m, bias_score, t) ==
    [m EXCEPT !.articles_processed    = @ + 1,
              !.total_processing_time = @ + bias_score.processing_time_ms,
              !.last_analysis         = t,
              !.api_calls_today       = @ + 1]

\* The mutant of CountProcessed: articles_processed is written from a value
\* read before the first wait of the call, so that an update made by another
\* call in between is lost.
CountProcessedStale(m, bias_score, t) ==
    [CountProcessedBody(m, bias_score, t) EXCEPT !.articles_processed = 1]

\* Lines 345-348 run with no wait between a read and its write.
CountProcessed(m, bias_score, t) == CountProcessedBody(m, bias_score, t)

\* The mutant of CountError: the error is not counted.
CountErrorNot(m) == m

\* self.metrics.error_count += 1
CountError(m) == [m EXCEPT !.error_count = @ + 1]

\* The except block of process_article: count the error, answer "error".
\* An exception the clause does not catch leaves process_article.
Failed(m, au, task, e) ==
    IF ExceptException(e)
    THEN [metrics |-> CountError(m), active_users |-> au,
          out |-> [ok |-> TRUE, exc |-> None,
                   resp |-> ErrorResponse(task.url, e, task.p_time)]]
    ELSE [metrics |-> m, active_users |-> au,
          out |-> [ok |-> FALSE, exc |-> e, resp |-> NoResponse]]

\* process_article after analyze_bias has returned or raised (scored), with
\* the metrics m and the active-users tally au as analyze_bias left them.
AfterScore(m, au, task, scored, t) ==
    IF ~scored.ok THEN Failed(m, au, task, scored.exc)
    ELSE
    LET m1   == CountProcessed(m, scored.val, t)
        au1  == IF task.user_segment # None THEN au + 1 ELSE au
        resp == SuccessResponse(task, scored.val)
    IN  IF ~resp.ok THEN Failed(m1, au1, task, resp.exc)
        ELSE [metrics |-> m1, active_users |-> au1,
              out |-> [ok |-> TRUE, exc |-> None, resp |-> resp.val]]

\* ----------------------------------------------------------------- actions
\* What the GET produces in Spec: FetchOutcomes(url) over two pages.
PageHello ==
    [title_tag |-> << <<"Hello">> >>, og_title |-> <<>>, twitter_title |-> <<>>,
     meta_description |-> << <<"how", " ", "to">> >>, og_description |-> <<>>,
     paragraphs |-> <<>>]

PageBare ==
    [title_tag |-> <<>>, og_title |-> <<>>, twitter_title |-> <<>>,
     meta_description |-> <<>>, og_description |-> <<>>, paragraphs |-> <<>>]

SpecFetches(url) ==
    { [kind |-> "error", exc |-> "TimeoutError"] }
    \cup IF urlparse(url).ok
         THEN { [kind |-> "body", status |-> 200, html |-> PageHello],
                [kind |-> "body", status |-> 404, html |-> PageBare] }
         ELSE {}

\* process_article(url, user_segment) is called and runs to the GET.
Call(t, url, seg) ==
    /\ tasks[t].pc = "idle"
    /\ tasks' = [tasks EXCEPT ![t].pc = "fetch", ![t].url = url,
                              ![t].user_segment = seg, ![t].p_time = 0]
    /\ UNCHANGED <<metrics, active_users, rate_limiter, now,
                   ex_in, ex_out, cl_in, cl_out, report>>

\* The GET ends: extract_article_content returns or raises; on a return
\* process_article calls analyze_bias, which runs to its async with.
FetchReturn(t, fetch, d) ==
    /\ tasks[t].pc = "fetch"
    /\ now' = now + d
    /\ LET r    == extract_article_content(tasks[t].url, fetch)
           task == [tasks[t] EXCEPT !.p_time = @ + d]
       IN  IF r.ok
           THEN /\ tasks' = [tasks EXCEPT ![t] = [task EXCEPT !.pc = "gate",
                                                              !.extracted = r.val,
                                                              !.a_time = 0]]
                /\ UNCHANGED <<metrics, active_users>>
           ELSE LET f == Failed(metrics, active_users, task, r.exc)
                IN  /\ tasks' = [tasks EXCEPT ![t] = [task EXCEPT !.pc = "done",
                                                                   !.out = f.out]]
                    /\ metrics' = f.metrics
                    /\ active_users' = f.active_users
    /\ UNCHANGED <<rate_limiter, ex_in, ex_out, cl_in, cl_out, report>>

\* The mutant of Locked: the gate never refuses.
NeverLocked(value) == FALSE

\* Semaphore.locked(): no slot is free.
Locked(value) == value = 0

\* async with self.rate_limiter: a slot is taken, and the remote call starts.
Acquire(t) ==
    /\ tasks[t].pc = "gate"
    /\ ~Locked(rate_limiter)
    /\ rate_limiter' = rate_limiter - 1
    /\ tasks' = [tasks EXCEPT ![t].pc = "call"]
    /\ UNCHANGED <<metrics, active_users, now, ex_in, ex_out, cl_in, cl_out, report>>

\* The mutant of Release: the slot is kept.
ReleaseNot(value) == value

\* The end of async with self.rate_limiter, on a return and on an exception
\* alike: the slot is given back.
Release(value) == value + 1

\* The mutant of SamplesDue: the fallback leaves samples too.
SamplesDueOnReturn(scored) == scored.ok

\* Lines 303-304 are reached only when the BiasScore was built from the reply.
SamplesDue(scored) == scored.parsed

\* The samples analyze_bias appends after a reply it could turn into a score.
AppendSamples(m, scored, reply) ==
    IF SamplesDue(scored)
    THEN [m EXCEPT !.response_times  = Append(@, scored.val.processing_time_ms),
                   !.accuracy_scores = Append(@, reply.doc.confidence.n)]
    ELSE m

\* The remote call ends: analyze_bias returns or raises, the slot is released,
\* and process_article, when it is the caller, runs to its end.  (The result
\* of a direct call goes to a caller the model does not follow.)
RemoteReturn(t, reply, d) ==
    /\ tasks[t].pc = "call"
    /\ now' = now + d
    /\ rate_limiter' = Release(rate_limiter)
    /\ LET task == [tasks[t] EXCEPT !.p_time = @ + d, !.a_time = @ + d,
                                    !.pc = "done", !.reply = reply]
       IN  \E scored \in {ScoreReply(task.extracted.title, task.extracted.content,
                                     reply, task.a_time)} :
             IF task.orch
             THEN \E a \in {AfterScore(AppendSamples(metrics, scored, reply),
                                       active_users, task, scored, now')} :
                    /\ tasks' = [tasks EXCEPT ![t] = [task EXCEPT !.scored = scored,
                                                                   !.out = a.out]]
                    /\ metrics' = a.metrics
                    /\ active_users' = a.active_users
             ELSE /\ tasks' = [tasks EXCEPT ![t].pc = "done"]
                  /\ metrics' = AppendSamples(metrics, scored, reply)
                  /\ UNCHANGED active_users
    /\ UNCHANGED <<ex_in, ex_out, cl_in, cl_out, report>>

\* ----------------------------------------------------------- specification
NoCall == [url |-> <<>>, fetch |-> [kind |-> "none"]]

NoText == [title |-> <<>>, content |-> <<>>]

NoReport ==
    [status |-> "none", articles_processed |-> 0, avg_response_time_ms |-> 0,
     error_rate_percent |-> 0, accuracy_rate |-> 0]

InitEngine ==
    /\ metrics = NewMetrics
    /\ active_users = 0
    /\ rate_limiter = RateLimit
    /\ now = 0

InitProbes ==
    /\ ex_in = NoCall
    /\ ex_out = Raise(None)
    /\ cl_in = NoText
    /\ cl_out = "-"
    /\ report = NoReport

\* The engine as constructed, and NumTasks requests to come.
Init ==
    /\ InitEngine
    /\ InitProbes
    /\ tasks = [t \in 1..NumTasks |-> NewTask(TRUE, "idle", NoContent)]

\* The URLs requested in Spec.
SpecUrls == {UrlNews, UrlBad}

DoCall ==
    \E t \in DOMAIN tasks, url \in SpecUrls, seg \in Segments : Call(t, url, seg)

DoFetchReturn ==
    \E t \in DOMAIN tasks :
        /\ tasks[t].pc = "fetch"
        /\ \E fetch \in SpecFetches(tasks[t].url), d \in Durations :
              FetchReturn(t, fetch, d)

DoAcquire == \E t \in DOMAIN tasks : Acquire(t)

DoRemoteReturn ==
    \E t \in DOMAIN tasks :
        /\ tasks[t].pc = "call"
        /\ \E reply \in Replies, d \in Durations : RemoteReturn(t, reply, d)

Next == DoCall \/ DoFetchReturn \/ DoAcquire \/ DoRemoteReturn

Spec == Init /\ [][Next]_vars

\* ------------------------------------------------- the gate under load
\* The text of the direct calls.
GateContent ==
    [title |-> <<"Hello">>, source |-> <<"Example">>, content |-> <<"how", " ", "to">>]

\* Three replies of Replies, one for each way out of analyze_bias: a timeout
\* (fallback), the document asked for (score), text that is not JSON
\* (HTTPException).
ReplyTimeout ==
    [kind |-> "error", exc |-> "APITimeoutError", text |-> <<>>, doc |-> GoodDoc]

ReplyGood == [kind |-> "text", exc |-> None, text |-> <<"{...}">>, doc |-> GoodDoc]

ReplyGarbage == [kind |-> "text", exc |-> None, text |-> <<"{...}">>, doc |-> Garbage]

GateReplies == {ReplyTimeout, ReplyGood, ReplyGarbage}

\* More direct calls of analyze_bias than the gate has slots, all scheduled
\* and none yet run; they are numbered in the order they reach the gate.
InitGate ==
    /\ InitEngine
    /\ InitProbes
    /\ tasks = [t \in 1..(RateLimit + ExtraCalls) |->
                   NewTask(FALSE, "gate", GateContent)]

\* asyncio.Semaphore serves its waiters first come, first served.
AcquireInTurn ==
    \E t \in DOMAIN tasks :
        /\ \A u \in 1..(t - 1) : tasks[u].pc # "gate"
        /\ Acquire(t)

DoGateReturn ==
    \E t \in DOMAIN tasks :
        /\ tasks[t].pc = "call"
        /\ \E reply \in GateReplies, d \in Durations : RemoteReturn(t, reply, d)

NextGate == AcquireInTurn \/ DoGateReturn

SpecGate == InitGate /\ [][NextGate]_vars

\* The replies of the run below: the t-th call gets a timeout, the document
\* asked for, or text that is not JSON, in turn, so that the three ways out
\* of analyze_bias are all taken.
FairReply(t) ==
    CASE t % 3 = 0 -> ReplyTimeout
      [] t % 3 = 1 -> ReplyGood
      [] OTHER     -> ReplyGarbage

DoFairReturn ==
    \E t \in DOMAIN tasks :
        /\ tasks[t].pc = "call"
        /\ \E reply \in {FairReply(t)}, d \in Durations : RemoteReturn(t, reply, d)

NextGateFair == AcquireInTurn \/ DoFairReturn

\* The calls inside async with: a slot held, the remote call outstanding.
InCall == {t \in DOMAIN tasks : tasks[t].pc = "call"}

\* A remote call returns or fails, and its call of analyze_bias ends.
LeavesCall == \E t \in DOMAIN tasks : tasks[t].pc = "call" /\ tasks'[t].pc = "done"

\* The gate when every remote call returns or fails and the event loop runs
\* every call that can run: the first waiter is woken when a slot is free.
\* The second condition is the weak fairness of DoFairReturn, which is enabled
\* exactly when a call is inside and whose steps are the steps LeavesCall.
SpecGateFair ==
    /\ InitGate
    /\ [][NextGateFair]_vars
    /\ WF_vars(AcquireInTurn)
    /\ ([]<>(InCall = {}) \/ []<><<LeavesCall>>_vars)

\* ------------------------------------------------ the fetcher, call by call
\* extract_article_content(url) is called once, and the GET produces fetch.
Extract(url, fetch) ==
    /\ ex_in.fetch.kind = "none"
    /\ ex_in' = [url |-> url, fetch |-> fetch]
    /\ ex_out' = extract_article_content(url, fetch)
    /\ UNCHANGED <<tasks, metrics, active_users, rate_limiter, now,
                   cl_in, cl_out, report>>

InitExtract ==
    /\ InitEngine
    /\ InitProbes
    /\ tasks = <<>>

NextExtract == \E url \in Urls : \E fetch \in FetchOutcomes(url) : Extract(url, fetch)

SpecExtract == InitExtract /\ [][NextExtract]_vars

\* --------------------------------------------- the classifier, call by call
Vocabulary ==
    {"Dangerous", "STALKERS", "guide", "How", "to", " ", "policy", "actually", "hello"}

ClassifierTitles == { <<"Hello">>, <<"How">>, <<"Policy", " ", "Guide">> }

ClassifierContents == UNION {[1..n -> Vocabulary] : n \in 1..(1 + MaxWords)}

\* detect_narrative_cluster(title, content) is called once.
Classify(title, content) ==
    /\ cl_out = "-"
    /\ cl_in' = [title |-> title, content |-> content]
    /\ cl_out' = detect_narrative_cluster(title, content)
    /\ UNCHANGED <<tasks, metrics, active_users, rate_limiter, now,
                   ex_in, ex_out, report>>

NextCluster ==
    \E title \in ClassifierTitles, content \in ClassifierContents :
        Classify(title, content)

SpecCluster == InitExtract /\ [][NextCluster]_vars

\* ------------------------------------------------------------- GET /metrics
\* round(num / den, 2) * 100: the quotient in hundredths, to the nearest, a
\* tie to the even one.  (The tie is decided on the exact quotient.)
Round2(num, den) ==
    LET n == num * 100
        q == n \div den
        r == n % den
    IN  IF 2 * r < den THEN q
        ELSE IF 2 * r > den THEN q + 1
        ELSE IF q % 2 = 0 THEN q ELSE q + 1

\* The mutant of Window: the whole list, whatever the size asked for.
WindowAll(samples, n) == samples

\* samples[-n:]
Window(samples, n) == Last(samples, n)

\* The mutant of HealthStatus: degraded only above five per cent.
HealthStatusAbove(error_count, processed) ==
    IF error_count * 100 <= 5 * processed THEN "healthy" ELSE "degraded"

\* "healthy" if error_rate < 5 else "degraded", for error_rate =
\* error_count / processed * 100.
HealthStatus(error_count, processed) ==
    IF error_count * 100 < 5 * processed THEN "healthy" ELSE "degraded"

\* get_system_metrics.  (uptime_hours and throughput_per_hour, functions of
\* the wall clock alone, are left out.)
get_system_metrics(m) ==
    LET rt        == Window(m.response_times, 100)
        acc       == Window(m.accuracy_scores, 50)
        processed == Max(m.articles_processed, 1)
    IN  [status               |-> HealthStatus(m.error_count, processed),
         articles_processed   |-> m.articles_processed,
         avg_response_time_ms |-> IF Len(m.response_times) > 0
                                  THEN Round2(Sum(rt), Len(rt)) ELSE 0,
         error_rate_percent   |-> Round2(m.error_count * 100, processed),
         accuracy_rate        |-> IF Len(m.accuracy_scores) > 0
                                  THEN Round2(Sum(acc), Len(acc)) ELSE 0]

\* GET /metrics is answered.
GetMetrics ==
    /\ report' = get_system_metrics(metrics)
    /\ UNCHANGED <<tasks, metrics, active_users, rate_limiter, now,
                   ex_in, ex_out, cl_in, cl_out>>

\* n copies of x
Rep(x, n) == [i \in 1..n |-> x]

\* The counters after earlier traffic: none, 20 articles, 100 articles.
TrafficCounts ==
    { <<0, 0>>, <<20, 0>>, <<20, 1>>, <<100, 4>>, <<100, 6>> }

\* The numbers of samples inside the windows after earlier traffic.
RecentCounts == {0, 1, 49, 50, 99, 100}

\* The metrics after earlier traffic: old samples (1000 ms, confidence 0.1)
\* followed by recent ones (200 ms, confidence 0.9).
MetricsAfter(c, old, recent) ==
    [NewMetrics EXCEPT
        !.articles_processed    = c[1],
        !.error_count           = c[2],
        !.api_calls_today       = c[1],
        !.total_processing_time = 200 * c[1],
        !.last_analysis         = IF c[1] > 0 THEN 0 ELSE NoTime,
        !.response_times        = Rep(1000, old) \o Rep(200, recent),
        !.accuracy_scores       = Rep(10, old) \o Rep(90, recent)]

\* The engine after earlier traffic, and one request to come.
InitReport ==
    /\ InitProbes
    /\ active_users = 0
    /\ rate_limiter = RateLimit
    /\ now = 0
    /\ \E c \in TrafficCounts, old \in 0..MaxOld, recent \in RecentCounts :
          metrics = MetricsAfter(c, old, recent)
    /\ tasks = [t \in 1..1 |-> NewTask(TRUE, "idle", NoContent)]

NextReport == Next \/ GetMetrics

SpecReport == InitReport /\ [][NextReport]_vars

\* ------------------------------------------------------- claims: the pipeline
\* The calls of process_article that have ended.
Ended == {t \in DOMAIN tasks : tasks[t].orch /\ tasks[t].pc = "done"}

\* The calls that end in this step.
Ending == {t \in DOMAIN tasks : tasks[t].orch /\ tasks[t].pc # "done"
                                  /\ tasks'[t].pc = "done"}

\* The reply is text that, fences stripped, is not JSON.
MalformedJSON(reply) ==
    /\ reply.kind = "text"
    /\ \/ StripFences(Strip(reply.text)) # <<"{...}">>
       \/ ~reply.doc.wellformed

\* The remote call failed (network error, timeout), or its reply is no
\* content, JSON that is no object, or an object with one of the eight fields
\* absent or one of the six numbers not a number.
CallFailedOrUnusable(reply) ==
    \/ reply.kind \in {"error", "null"}
    \/ /\ reply.kind = "text"
       /\ ~MalformedJSON(reply)
       /\ \/ ~reply.doc.object
          \/ \E v \in {reply.doc.ideological_stance, reply.doc.factual_grounding,
                       reply.doc.framing_choices, reply.doc.emotional_tone,
                       reply.doc.source_transparency, reply.doc.confidence} :
                v.t # "num"
          \/ reply.doc.highlighted_phrases.t = "missing"
          \/ reply.doc.reasoning.t = "missing"

Neutral == <<50, 50, 50, 50, 50>>

\* C1: whatever the URL, the fetch and the remote model do, a call of
\* process_article that has ended has returned a response, and the status of
\* the response is "success" or "error": no exception has left the call.
C1_StatusSuccessOrError ==
    \A t \in Ended :
        /\ tasks[t].out.ok
        /\ tasks[t].out.resp.status \in {"success", "error"}

\* Two calls have ended, one after ill-formed JSON and one after a timeout of
\* the remote model.
C1_Witness ==
    \E t, u \in Ended :
        /\ MalformedJSON(tasks[t].reply)
        /\ tasks[u].reply.kind = "error"
        /\ tasks[u].reply.exc = "APITimeoutError"

\* C2: when the remote call fails, or its reply cannot be turned into a score
\* for a reason other than malformed JSON, analyze_bias returns the fallback
\* (five scores of 50.0, confidence 0.1, "error" the only key of
\* highlighted_phrases and of reasoning) and process_article answers
\* "success" with those values.
C2_FallbackIsSuccess ==
    \A t \in Ended :
        CallFailedOrUnusable(tasks[t].reply) =>
            /\ tasks[t].scored.ok
            /\ LET b == tasks[t].scored.val
               IN  /\ <<b.ideological_stance, b.factual_grounding, b.framing_choices,
                        b.emotional_tone, b.source_transparency>> = Neutral
                   /\ b.confidence = 10
                   /\ b.highlighted_phrases.keys = {"error"}
                   /\ b.reasoning.keys = {"error"}
            /\ tasks[t].out.ok
            /\ LET r == tasks[t].out.resp
               IN  /\ r.status = "success"
                   /\ r.scores = Neutral
                   /\ r.confidence = 10
                   /\ r.highlighted_phrases.keys = {"error"}

\* Calls have ended after a network error and after a reply with a score
\* that is no number.
C2_Witness ==
    \E t, u \in Ended :
        /\ tasks[t].reply.kind = "error"
        /\ tasks[u].reply.kind = "text"
        /\ CallFailedOrUnusable(tasks[u].reply)
        /\ tasks[u].reply.doc.ideological_stance.t = "str"

\* C3: a call whose remote reply, fences stripped, is not JSON ends with
\* analyze_bias raising (no fallback score is returned) and process_article
\* answering "error" with no scores and confidence 0, and the step that ends
\* it adds one to error_count.
C3_MalformedJSONIsError ==
    [][\A t \in Ending :
          MalformedJSON(tasks'[t].reply) =>
              /\ ~tasks'[t].scored.ok
              /\ tasks'[t].scored.exc = "HTTPException"
              /\ tasks'[t].out.ok
              /\ tasks'[t].out.resp.status = "error"
              /\ tasks'[t].out.resp.scores = <<>>
              /\ tasks'[t].out.resp.confidence = 0
              /\ metrics'.error_count = metrics.error_count + 1]_vars

\* A call has ended after a fenced reply that is prose around the document,
\* and the error is counted.
C3_Witness ==
    \E t \in Ended :
        /\ MalformedJSON(tasks[t].reply)
        /\ tasks[t].reply.doc.wellformed
        /\ tasks[t].out.resp.status = "error"
        /\ metrics.error_count >= 1

\* C6: articles_processed and error_count never decrease, and a step adds to
\* error_count exactly the number of calls that end in it with status
\* "error" (one for a call that ends so, nothing for any other step).
C6_CountersMonotone ==
    [][/\ metrics'.articles_processed >= metrics.articles_processed
       /\ metrics'.error_count >= metrics.error_count
       /\ Cardinality(Ending) <= 1
       /\ metrics'.error_count - metrics.error_count =
              Cardinality({t \in Ending : tasks'[t].out.resp.status = "error"})]_vars

\* Both counters have moved: one call has ended "error", another "success".
C6_Witness ==
    /\ metrics.error_count >= 1
    /\ metrics.articles_processed >= 1
    /\ \E t, u \in Ended :
          /\ tasks[t].out.resp.status = "error"
          /\ tasks[u].out.resp.status = "success"

\* ------------------------------------------------------ claims: the fetcher
\* C4: when the GET yields a body, whatever the status, the call returns the
\* best-effort triple: the title is the first match of <title>, og:title,
\* twitter:title, or "Unknown Title", never "Content Extraction Failed", and
\* with no description and no paragraph the snippet is
\* "Article from {source}: {title}".
C4_BodyGivesBestEffort ==
    ex_in.fetch.kind = "body" =>
        /\ ex_out.ok
        /\ ex_out.val.title # ExtractionFailed
        /\ ex_out.val.title = ExtractTitle(ex_in.fetch.html)
        /\ ContentParts(ex_in.fetch.html) = <<>> =>
               ex_out.val.content = <<"Article", " ", "from", " ">>
                   \o ex_out.val.source \o <<":", " ">> \o ex_out.val.title

\* C5: for every URL and every failure of the fetch, the call returns, and
\* what it returns is the degraded triple: "Content Extraction Failed", a
\* source, "Unable to extract content from " and the URL.
C5_NeverPropagates ==
    ex_in.fetch.kind = "error" =>
        /\ ex_out.ok
        /\ ex_out.val.title = ExtractionFailed
        /\ ex_out.val.content = UnableToExtract \o ex_in.url

\* --------------------------------------------------------- claims: the gate
\* C7: at no moment are more than 10 calls of analyze_bias inside the remote
\* call, and a call enters it only from a state where fewer than 10 are in.
C7_AtMostTenInCall ==
    /\ [](Cardinality(InCall) <= 10)
    /\ [][\A t \in DOMAIN tasks :
             tasks[t].pc = "gate" /\ tasks'[t].pc = "call" =>
                 Cardinality(InCall) < 10]_vars

\* Ten calls are inside the remote call, one of them a call that came after
\* the ten slots were taken, and one call has left.
C7_Witness ==
    /\ Cardinality(InCall) = 10
    /\ \E t \in InCall : t > 10
    /\ \E t \in DOMAIN tasks : tasks[t].pc = "done"

\* --------------------------------------------------- claims: the classifier
ClaimedOrder ==
    <<"privacy_alarmist", "technical_explainer", "regulatory_response",
      "corporate_defense">>

\* The number of keywords of the cluster called name that occur in text.
Hits(name, text) ==
    LET kw == narrative_patterns[CHOOSE i \in 1..Len(narrative_patterns) :
                                     narrative_patterns[i].cluster = name].keywords
    IN  Cardinality({i \in 1..Len(kw) : Contains(text, kw[i])})

ClassifiedText == Lower(cl_in.title \o <<" ">> \o cl_in.content)

\* C10: the label is that of the cluster with the most keywords in the
\* lower-cased text, the first such cluster in the order privacy_alarmist,
\* technical_explainer, regulatory_response, corporate_defense; it is no
\* label when no keyword occurs; and the call leaves the engine as it was.
C10_FirstBestCluster ==
    /\ [](cl_out # "-" =>
            LET hits == [i \in 1..4 |-> Hits(ClaimedOrder[i], ClassifiedText)]
            IN  IF \A i \in 1..4 : hits[i] = 0
                THEN cl_out = None
                ELSE \E i \in 1..4 :
                        /\ cl_out = ClaimedOrder[i]
                        /\ hits[i] > 0
                        /\ \A j \in 1..4 : hits[j] <= hits[i]
                        /\ \A j \in 1..(i - 1) : hits[j] < hits[i])
    /\ [][cl_out' # cl_out =>
             UNCHANGED <<tasks, metrics, active_users, rate_limiter>>]_vars

\* A text with as many keywords of technical_explainer as of
\* regulatory_response, and none of another cluster, is labelled
\* technical_explainer.
C10_Witness ==
    /\ cl_out = "technical_explainer"
    /\ Hits("technical_explainer", ClassifiedText) >= 1
    /\ Hits("regulatory_response", ClassifiedText)
           = Hits("technical_explainer", ClassifiedText)

\* ------------------------------------------------------ claims: GET /metrics
\* h is num / den to the nearest whole number.
Nearest(h, num, den) ==
    /\ 2 * (h * den - num) <= den
    /\ 2 * (num - h * den) <= den

\* C8, as stated: the report gives error_count / max(articles_processed, 1)
\* x 100 (to two decimals), it says "degraded" exactly when that is 5 or more, after 0
\* processed articles it gives 0 and "healthy", and with 6 errors and 100
\* articles it gives 6.0 and "degraded".
C8_AsStated ==
    [][report' # report =>
          LET processed == Max(metrics.articles_processed, 1)
          IN  /\ Nearest(report'.error_rate_percent,
                         metrics.error_count * 10000, processed)
              /\ report'.status \in {"healthy", "degraded"}
              /\ report'.status = "degraded"
                     <=> metrics.error_count * 100 >= 5 * processed
              /\ metrics.articles_processed = 0 =>
                     /\ report'.error_rate_percent = 0
                     /\ report'.status = "healthy"
              /\ metrics.error_count = 6 /\ metrics.articles_processed = 100 =>
                     /\ report'.error_rate_percent = 600
                     /\ report'.status = "degraded"]_vars

\* C8, amended: as stated, but 0 and "healthy" after 0 processed articles
\* only when no request has failed either; with failures and 0 processed
\* articles the report gives 100 x error_count and "degraded".
C8_ErrorRateAndStatus ==
    [][report' # report =>
          LET processed == Max(metrics.articles_processed, 1)
          IN  /\ Nearest(report'.error_rate_percent,
                         metrics.error_count * 10000, processed)
              /\ report'.status \in {"healthy", "degraded"}
              /\ report'.status = "degraded"
                     <=> metrics.error_count * 100 >= 5 * processed
              /\ metrics.articles_processed = 0 /\ metrics.error_count = 0 =>
                     /\ report'.error_rate_percent = 0
                     /\ report'.status = "healthy"
              /\ metrics.articles_processed = 0 /\ metrics.error_count > 0 =>
                     /\ report'.error_rate_percent = 10000 * metrics.error_count
                     /\ report'.status = "degraded"
              /\ metrics.error_count = 6 /\ metrics.articles_processed = 100 =>
                     /\ report'.error_rate_percent = 600
                     /\ report'.status = "degraded"]_vars

\* The only request so far has failed, and the report says 100 per cent and
\* "degraded".
C8_Witness ==
    /\ metrics.articles_processed = 0
    /\ metrics.error_count = 1
    /\ report.articles_processed = 0
    /\ report.error_rate_percent = 10000
    /\ report.status = "degraded"

\* samples[lo] + ... + samples[hi]
RECURSIVE SumFromTo(_, _, _)
SumFromTo(samples, lo, hi) ==
    IF lo > hi THEN 0 ELSE samples[hi] + SumFromTo(samples, lo, hi - 1)

\* The mean, in hundredths, of the n last entries of samples (of all of them
\* when there are fewer), 0 when there is none.
MeanOfLast(samples, n) ==
    LET lo == Max(1, Len(samples) - n + 1)
    IN  IF Len(samples) = 0 THEN 0
        ELSE Round2(SumFromTo(samples, lo, Len(samples)), Len(samples) - lo + 1)

\* C9: the report gives the mean of the 100 last response times and the mean
\* of the 50 last confidences (x 100), whatever the older samples are, 0 for
\* an empty list, and answering it leaves the metrics, lists included, as
\* they were.
C9_RollingWindows ==
    [][report' # report =>
          /\ report'.avg_response_time_ms = MeanOfLast(metrics.response_times, 100)
          /\ report'.accuracy_rate = MeanOfLast(metrics.accuracy_scores, 50)
          /\ Len(metrics.response_times) = 0 => report'.avg_response_time_ms = 0
          /\ Len(metrics.accuracy_scores) = 0 => report'.accuracy_rate = 0
          /\ metrics' = metrics]_vars

\* More than 100 samples are stored, the oldest of 1000 ms and confidence
\* 0.1, and the report gives the 200 ms and the 90 per cent of the recent
\* ones.
C9_Witness ==
    /\ Len(metrics.response_times) > 100
    /\ metrics.response_times[1] = 1000
    /\ metrics.accuracy_scores[1] = 10
    /\ \A i \in 3..Len(metrics.response_times) : metrics.response_times[i] = 200
    /\ report.status # "none"
    /\ report.avg_response_time_ms = 20000
    /\ report.accuracy_rate = 9000

\* ------------------------------------------------- claims: ranges and order
\* C11: every BiasScore analyze_bias returns, and every response with status
\* "success", has its five scores between 0 and 100 and its confidence
\* between 0 and 1 (0 and 100 hundredths), whatever numbers the reply holds.
C11_ScoresInRange ==
    \A t \in Ended :
        /\ tasks[t].scored.ok =>
               LET b == tasks[t].scored.val
               IN  /\ \A v \in {b.ideological_stance, b.factual_grounding,
                                b.framing_choices, b.emotional_tone,
                                b.source_transparency} : v >= 0 /\ v <= 100
                   /\ b.confidence >= 0 /\ b.confidence <= 100
        /\ tasks[t].out.ok /\ tasks[t].out.resp.status = "success" =>
               LET r == tasks[t].out.resp
               IN  /\ \A i \in 1..Len(r.scores) :
                          r.scores[i] >= 0 /\ r.scores[i] <= 100
                   /\ r.confidence >= 0 /\ r.confidence <= 100

\* C12: a call of process_article goes once through the fetch, then once
\* through the remote call, in that order and with no way back, and it ends
\* only after the remote call: a fetch that failed is followed by the remote
\* call, on the placeholder text, and never by the end of the call.
C12_OneFetchThenOneCall ==
    [][\A t \in DOMAIN tasks :
          tasks'[t].pc # tasks[t].pc =>
              <<tasks[t].pc, tasks'[t].pc>> \in
                  { <<"idle", "fetch">>, <<"fetch", "gate">>,
                    <<"gate", "call">>, <<"call", "done">> }]_vars

\* ------------------------------------------------------ claims: the counters
\* The calls that ran the counter update of the success path: those whose
\* analyze_bias returned a score.
RanSuccessUpdate == {t \in Ended : tasks[t].scored.ok}

AnsweredError == {t \in Ended : tasks[t].out.ok /\ tasks[t].out.resp.status = "error"}

\* C13: whatever the interleaving of the requests at the fetch, at the gate
\* and at the remote call, no increment is lost: articles_processed is the
\* number of calls that ran the success-path update and error_count the
\* number of calls that answered "error", at every moment and so once all
\* the calls have ended.
C13_NoLostIncrement ==
    /\ metrics.articles_processed = Cardinality(RanSuccessUpdate)
    /\ metrics.error_count = Cardinality(AnsweredError)

\* All the calls have ended, two of them on the success path, and they were
\* not all successes.
C13_Witness ==
    /\ \A t \in DOMAIN tasks : tasks[t].pc = "done"
    /\ Cardinality(RanSuccessUpdate) >= 2
    /\ metrics.error_count >= 1

\* C14: the step that ends a call moves exactly one of articles_processed
\* and error_count, by one, and when the call answers "error" it leaves
\* articles_processed, total_processing_time, last_analysis, api_calls_today
\* and active_users as they were.
C14_ErrorLeavesSuccessCounters ==
    [][\A t \in Ending :
          /\ (metrics'.articles_processed - metrics.articles_processed)
                 + (metrics'.error_count - metrics.error_count) = 1
          /\ tasks'[t].out.resp.status = "error" =>
                 /\ metrics'.articles_processed = metrics.articles_processed
                 /\ metrics'.total_processing_time = metrics.total_processing_time
                 /\ metrics'.last_analysis = metrics.last_analysis
                 /\ metrics'.api_calls_today = metrics.api_calls_today
                 /\ active_users' = active_users]_vars

\* ------------------------------------------------- claims: the gate's slots
\* C15: a slot taken by analyze_bias is given back on every way out: the free
\* slots are always 10 less the calls inside the remote call, so all 10 are
\* free when no call is inside; and, every remote call returning or failing,
\* every call that waits for a slot gets one and ends: from a state where
\* calls wait, a state is reached where all the calls have ended.
C15_SlotsReleased ==
    /\ [](rate_limiter = 10 - Cardinality(InCall))
    /\ [](InCall = {} => rate_limiter = 10)
    /\ (\E t \in DOMAIN tasks : tasks[t].pc = "gate")
           ~> (\A t \in DOMAIN tasks : tasks[t].pc = "done")

\* Every call has ended, the call that had to wait among them, by the three
\* ways out (the parsed replies alone left samples), and the 10 slots are
\* free.
C15_Witness ==
    /\ \A t \in DOMAIN tasks : tasks[t].pc = "done"
    /\ Len(tasks) > 10
    /\ rate_limiter = 10
    /\ Len(metrics.response_times)
           = Cardinality({t \in DOMAIN tasks : t % 3 = 1})

\* ------------------------------------------------------- claims: the samples
\* The calls of process_article that went through the remote call.
Scoring == {t \in Ended : tasks[t].reply.kind # "none"}

\* The reply was turned into a BiasScore: the remote call returned text that
\* is the JSON document alone, an object, with its eight fields, the six
\* numeric ones numbers.
ReplyParsed(reply) ==
    /\ reply.kind = "text"
    /\ ~MalformedJSON(reply)
    /\ ~CallFailedOrUnusable(reply)

\* C16: response_times and accuracy_scores always have the same length, at
\* most the number of scoring calls made; the step that ends a scoring call
\* adds one entry to each when the reply was parsed into a BiasScore, and
\* leaves both as they were after the fallback or the malformed-JSON error,
\* so that the samples are as many as the parsed replies and no fallback
\* is among them.
C16_SamplesOnlyWhenParsed ==
    /\ [](/\ Len(metrics.response_times) = Len(metrics.accuracy_scores)
          /\ Len(metrics.response_times) <= Cardinality(Scoring)
          /\ Len(metrics.response_times)
                 = Cardinality({t \in Scoring : ReplyParsed(tasks[t].reply)}))
    /\ [][\A t \in Ending :
             IF ReplyParsed(tasks'[t].reply)
             THEN /\ Len(metrics'.response_times) = Len(metrics.response_times) + 1
                  /\ Len(metrics'.accuracy_scores) = Len(metrics.accuracy_scores) + 1
             ELSE /\ metrics'.response_times = metrics.response_times
                  /\ metrics'.accuracy_scores = metrics.accuracy_scores]_vars

\* Two scoring calls have ended, one on the fallback and one on a parsed
\* reply, and one sample is in each list.
C16_Witness ==
    /\ \E t, u \in Scoring :
          /\ ReplyParsed(tasks[t].reply)
          /\ tasks[u].scored.ok /\ tasks[u].scored.val.confidence = 10
    /\ Cardinality(Scoring) = 2
    /\ Len(metrics.response_times) = 1
    /\ Len(metrics.accuracy_scores) = 1

====
